---- MODULE Spec2Model ----
(***************************************************************************)
(* pw-autopaused: the device/route state tracker and transition detector. *)
(* The registry maps, the session state and the handlers are those of the *)
(* revision src/unnamed/part_001 (the one that tracks currentDefaultSink).*)
(*                                                                         *)
(* A Go string whose characters are inspected (port.type, direction, a    *)
(* metadata string value) is a sequence of symbols; the empty string is   *)
(* the empty sequence.  A Go map is a function whose DOMAIN is the key    *)
(* set.  Ranging over a Go map visits the keys in an unspecified order:   *)
(* every such loop takes the order as an argument and the actions draw   *)
(* it from all permutations of the key set.                               *)
(***************************************************************************)
EXTENDS Integers, Sequences, FiniteSets, TLC

VARIABLES
    GlobalNodes,         \* map[int]Node
    GlobalDevices,       \* map[int]Device
    currentDefaultSink,  \* string
    IsUserOperation,     \* bool
    pending,             \* entries of the metadata record being handled that are still to be processed
    last,                \* the record or metadata entry processed last, and what the handler printed for it
    configuredSinceSink, \* a default.configured.audio.sink entry was processed and no default.audio.sink entry since
    trace,               \* how many records of EndToEndTrace have been dispatched, in order, from the start (-1: left it)
    traceDeclared,       \* transitions declared while following EndToEndTrace
    tick,                \* parity of the number of steps taken
    stream,              \* the loop of main: its position, the decoder, the records of the batch still to dispatch
    probe,               \* the route classifier applied to one device: the device, the function, its result
    mute                 \* the mute actuator (pipewire_mute.c): data, the loop lock, the calls of pw_mute_set

vars == <<GlobalNodes, GlobalDevices, currentDefaultSink, IsUserOperation,
          pending, last, configuredSinceSink, trace, traceDeclared, tick,
          stream, probe, mute>>

\* ------------------------------------------------------------------ bounds

\* the longest metadata list of one Metadata record
MaxEntries == 2

\* the most records one batch of the event source holds
MaxBatch == 2

\* the longest route list of a device handed to the classifier
MaxRoutes == 3

\* the sequence numbers of set-param requests that are told apart
MaxSeq == 3

\* calls of pw_mute_init and pw_mute_deinit in a run
MaxLifecycle == 2

\* ------------------------------------------------------------------ strings

EmptyString == << >>

\* A character outside ASCII is a symbol that names its code point.  Two of them
\* are lowered into ASCII by unicode.ToLower, the Kelvin sign to k and the capital
\* I with dot above to i; the long s is folded to s by unicode.SimpleFold and is
\* left alone by unicode.ToLower.  Every other character outside ASCII that
\* unicode.ToLower changes goes to a character outside ASCII, which no keyword
\* holds: those are not among the symbols.
KelvinSign == "U+212A"
CapitalDottedI == "U+0130"
LongS == "U+017F"

UpperCase == <<"A","B","C","D","E","F","G","H","I","J","K","L","M",
               "N","O","P","Q","R","S","T","U","V","W","X","Y","Z">>
LowerCase == <<"a","b","c","d","e","f","g","h","i","j","k","l","m",
               "n","o","p","q","r","s","t","u","v","w","x","y","z">>

\* unicode.ToLower
LowerOf(c) ==
    IF \E i \in 1..Len(UpperCase) : UpperCase[i] = c
    THEN LowerCase[CHOOSE i \in 1..Len(UpperCase) : UpperCase[i] = c]
    ELSE IF c = KelvinSign THEN "k"
    ELSE IF c = CapitalDottedI THEN "i"
    ELSE c

\* strings.ToLower
ToLower(s) == [i \in 1..Len(s) |-> LowerOf(s[i])]

\* the least character of the class unicode.SimpleFold runs through: the letters
\* of a case pair, with the Kelvin sign among k, K and the long s among s, S
FoldOf(c) ==
    IF c = LongS THEN "s"
    ELSE IF c = CapitalDottedI THEN c
    ELSE LowerOf(c)

\* strings.EqualFold
EqualFold(a, b) ==
    /\ Len(a) = Len(b)
    /\ \A i \in 1..Len(a) : FoldOf(a[i]) = FoldOf(b[i])

\* strings.Contains
Contains(s, substr) ==
    \E i \in 0..(Len(s) - Len(substr)) : SubSeq(s, i + 1, i + Len(substr)) = substr

RECURSIVE TrimLeft(_, _)
TrimLeft(s, c) == IF s # << >> /\ Head(s) = c THEN TrimLeft(Tail(s), c) ELSE s

RECURSIVE TrimRight(_, _)
TrimRight(s, c) ==
    IF s # << >> /\ s[Len(s)] = c THEN TrimRight(SubSeq(s, 1, Len(s) - 1), c) ELSE s

\* strings.Trim(s, cutset) for a one-character cutset
Trim(s, c) == TrimRight(TrimLeft(s, c), c)

\* ------------------------------------------------------------------ maps

EmptyMap == [k \in {} |-> 0]

\* faulty variant of MapPut: an identifier already present keeps its record
MapPutKeepsFirst(m, k, v) ==
    [x \in (DOMAIN m) \cup {k} |-> IF x \in DOMAIN m THEN m[x] ELSE v]

MapPut(m, k, v) == [x \in (DOMAIN m) \cup {k} |-> IF x = k THEN v ELSE m[x]]

\* the orders in which a range loop can visit the keys of m
IterOrders(m) ==
    LET n == Cardinality(DOMAIN m)
    IN {o \in [1..n -> DOMAIN m] : \A i, j \in 1..n : i # j => o[i] # o[j]}

\* one order for each result a lookup of nodeName in nodes can have
LookupOrders(nodes, nodeName) ==
    LET hit(o) == IF \E i \in 1..Len(o) : nodes[o[i]].NodeName = nodeName
                  THEN o[CHOOSE i \in 1..Len(o) :
                            /\ nodes[o[i]].NodeName = nodeName
                            /\ \A j \in 1..(i - 1) : nodes[o[j]].NodeName # nodeName]
                  ELSE 0
        hits == {hit(o) : o \in IterOrders(nodes)}
    IN {CHOOSE o \in IterOrders(nodes) : hit(o) = h : h \in hits}

\* ------------------------------------------------------------------ values

\* an element of a route's flat info list (interface{}): a string or another JSON value
StrElem(s) == [isStr |-> TRUE, s |-> s, n |-> 0]
NumElem(n) == [isStr |-> FALSE, s |-> EmptyString, n |-> n]

RouteInfo(index, direction, priority, info) ==
    [Index |-> index, Direction |-> direction, Priority |-> priority, Info |-> info]

\* RouteInfo{}
ZeroRoute == RouteInfo(0, EmptyString, 0, << >>)

Device(id, route) == [ID |-> id, Route |-> route]

\* Device{}: what a read of a missing key of GlobalDevices yields
ZeroDevice == Device(0, << >>)

Node(id, nodeName, deviceID) == [ID |-> id, NodeName |-> nodeName, DeviceID |-> deviceID]

\* faulty variant of publicDevice: the "hdmi" keyword is missing
publicDeviceWithoutHdmi ==
    << <<"s","p","e","a","k","e","r">>, <<"d","i","s","p","l","a","y","p","o","r","t">> >>

publicDevice == << <<"s","p","e","a","k","e","r">>, <<"h","d","m","i">>, <<"d","i","s","p","l","a","y","p","o","r","t">> >>

privateDevice == << <<"h","e","a","d","p","h","o","n","e","s">>, <<"h","e","a","d","s","e","t">> >>

OutputDirection == <<"o","u","t","p","u","t">>

PortTypeKey == <<"p","o","r","t",".","t","y","p","e">>

\* ------------------------------------------------------------------ route classifier

RECURSIVE ParseLoop(_, _, _)
\* the loop of ParseRouteProperties; i is the 0-based index of the Go loop
ParseLoop(infoArray, i, props) ==
    IF i + 1 < Len(infoArray)
    THEN LET key == infoArray[i + 1]
             val == infoArray[i + 2]
         IN ParseLoop(infoArray, i + 2,
                      IF key.isStr /\ val.isStr THEN MapPut(props, key.s, val.s) ELSE props)
    ELSE props

\* faulty variant of ParseRouteProperties: no length guard, and the pairs are
\* read from position 0
ParseRoutePropertiesFromZero(infoArray) == ParseLoop(infoArray, 0, EmptyMap)

ParseRouteProperties(infoArray) ==
    IF Len(infoArray) < 3 THEN EmptyMap ELSE ParseLoop(infoArray, 1, EmptyMap)

RECURSIVE InsertByPriority(_, _)
\* one pass of the insertion sort sort.Slice runs on a short slice, with
\* less(i, j) == Priority[i] > Priority[j]: r moves left past lower priorities only
InsertByPriority(sorted, r) ==
    IF sorted # << >> /\ r.Priority > sorted[Len(sorted)].Priority
    THEN Append(InsertByPriority(SubSeq(sorted, 1, Len(sorted) - 1), r), sorted[Len(sorted)])
    ELSE Append(sorted, r)

\* faulty variant of SortByPriority: the routes stay in the order of the list
SortByPriorityUnsorted(routes) == routes

RECURSIVE SortByPriority(_)
SortByPriority(routes) ==
    IF routes = << >> THEN << >>
    ELSE InsertByPriority(SortByPriority(SubSeq(routes, 1, Len(routes) - 1)), routes[Len(routes)])

IsOutputRoute(r) == EqualFold(r.Direction, OutputDirection)

GetHighestPriorityOutputRoute(dev) ==
    LET outputRoutes == SelectSeq(dev.Route, IsOutputRoute)
    IN IF Len(outputRoutes) = 0
       THEN [route |-> ZeroRoute, ok |-> FALSE]
       ELSE [route |-> SortByPriority(outputRoutes)[1], ok |-> TRUE]

checkDeviceCategory(dev, keywords) ==
    LET top == GetHighestPriorityOutputRoute(dev)
        parsed == ParseRouteProperties(top.route.Info)
    IN /\ top.ok
       /\ PortTypeKey \in DOMAIN parsed
       /\ \E i \in 1..Len(keywords) : Contains(ToLower(parsed[PortTypeKey]), keywords[i])

IsPublicDevice(dev) == checkDeviceCategory(dev, publicDevice)

IsPrivateDevice(dev) == checkDeviceCategory(dev, privateDevice)

\* ------------------------------------------------------------------ registry lookups

\* order: the order in which the range loop visits the keys of nodes
GetNodeIDByName(nodes, nodeName, order) ==
    LET hits == {i \in 1..Len(order) : nodes[order[i]].NodeName = nodeName}
    IN IF hits = {}
       THEN [id |-> 0, ok |-> FALSE]
       ELSE [id |-> order[CHOOSE i \in hits : \A j \in hits : i <= j], ok |-> TRUE]

GetDeviceIDByNodeName(nodes, nodeName, order) ==
    LET found == GetNodeIDByName(nodes, nodeName, order)
    IN IF ~found.ok THEN [id |-> 0, ok |-> FALSE]
       ELSE IF found.id \notin DOMAIN nodes THEN [id |-> 0, ok |-> FALSE]
       ELSE [id |-> nodes[found.id].DeviceID, ok |-> TRUE]

\* GlobalDevices[id] as Go reads it: the zero Device when the key is missing
DeviceAt(devices, id) == IF id \in DOMAIN devices THEN devices[id] ELSE ZeroDevice

\* ------------------------------------------------------------------ metadata values

SinkKey == "default.audio.sink"

ConfiguredKey == "default.configured.audio.sink"

\* MetadataEntry.Value (interface{}) after json.Unmarshal: a JSON object
\* (map[string]interface{}), a string, a number or null
ObjectValue(fields) == [kind |-> "object", fields |-> fields, text |-> EmptyString]
StringValue(text) == [kind |-> "string", fields |-> EmptyMap, text |-> text]
NumberValue == [kind |-> "number", fields |-> EmptyMap, text |-> EmptyString]
NullValue == [kind |-> "null", fields |-> EmptyMap, text |-> EmptyString]

MetadataEntry(key, value) == [Key |-> key, Value |-> value]

Quote == "\""

\* the text {"name":"<n>"} for a one-symbol name n
JsonNameObject(n) == <<"{", Quote, "name", Quote, ":", Quote, n, Quote, "}">>

\* A JSON text is a sequence of symbols: the punctuation { } [ ] : , and the
\* quote, white space, and any other symbol, which stands for a run of
\* characters that holds none of these and no backslash.

\* white space between the tokens of a JSON text
JsonSpace == {" ", "\t", "\n", "\r"}

\* the characters of a string of the model, one by one
CharAt(c, i) == SubSeq(c, i, i)

\* the characters U+0001 to U+001F, which a JSON string cannot hold unescaped
\* (U+0000, refused as well, is not among the characters of the symbols)
JsonControl ==
    {"\t", "\n", "\f", "\r",
     "", "", "", "", "", "", "", "", "", "", "", "", "", "", "", "", "", "", "", "", "", "", "", "", "", "", ""}

\* the symbol c is white space between the tokens of a JSON text
IsJsonSpace(c) == Len(c) >= 1 /\ \A i \in 1..Len(c) : CharAt(c, i) \in JsonSpace

\* the symbol c holds a control character
HasControl(c) == \E i \in 1..Len(c) : CharAt(c, i) \in JsonControl

JsonDigits == {"0", "1", "2", "3", "4", "5", "6", "7", "8", "9"}

\* The scanner of a number, one character at a time: the state after the
\* character ch read in state st ("begin": nothing read, "neg": a minus, "0":
\* a leading zero, "1": digits of the integer part, "dot": the point, "dot0":
\* digits of the fraction, "e": the exponent mark, "esign": its sign, "e0":
\* digits of the exponent), or "error"
NumberStep(st, ch) ==
    LET digit == ch \in JsonDigits
    IN CASE st = "begin" /\ ch = "-" -> "neg"
         [] st \in {"begin", "neg"} /\ ch = "0" -> "0"
         [] st \in {"begin", "neg", "1"} /\ digit /\ ~(st # "1" /\ ch = "0") -> "1"
         [] st \in {"0", "1"} /\ ch = "." -> "dot"
         [] st \in {"dot", "dot0"} /\ digit -> "dot0"
         [] st \in {"0", "1", "dot0"} /\ ch \in {"e", "E"} -> "e"
         [] st = "e" /\ ch \in {"+", "-"} -> "esign"
         [] st \in {"e", "esign", "e0"} /\ digit -> "e0"
         [] OTHER -> "error"

\* the state of the scanner after the characters of c from i on, begun in st
RECURSIVE NumberScan(_, _, _)
NumberScan(c, i, st) ==
    IF i > Len(c) \/ st = "error" THEN st
    ELSE NumberScan(c, i + 1, NumberStep(st, CharAt(c, i)))

\* c spells a JSON number: an optional minus, 0 or digits that do not start
\* with 0, an optional fraction, an optional exponent (numbers too large for a
\* float64, which json.Unmarshal refuses, are not among the symbols)
JsonNumber(c) == NumberScan(c, 1, "begin") \in {"0", "1", "dot0", "e0"}

\* the literals a JSON text can hold outside a string: null, true, false, numbers
JsonLiteral(c) == c \in {"null", "true", "false"} \/ JsonNumber(c)

\* a token of a JSON text: a string with its content, or a symbol outside a string
StringToken(s) == [str |-> TRUE, s |-> s]
SymbolToken(c) == [str |-> FALSE, s |-> <<c>>]

\* the scanner: the tokens of v from symbol i on, after the tokens of acc; cur
\* is the content read so far of the string the scanner is in.  A string that
\* is not closed, or that holds a control character, ends the scan with a quote
\* symbol as the last token, which no JSON text has.
RECURSIVE JsonTokens(_, _, _, _, _)
JsonTokens(v, i, inString, cur, acc) ==
    IF i > Len(v)
    THEN IF inString THEN Append(acc, SymbolToken(Quote)) ELSE acc
    ELSE IF inString
    THEN IF v[i] = Quote
         THEN JsonTokens(v, i + 1, FALSE, << >>, Append(acc, StringToken(cur)))
         ELSE IF HasControl(v[i]) THEN Append(acc, SymbolToken(Quote))
         ELSE JsonTokens(v, i + 1, TRUE, Append(cur, v[i]), acc)
    ELSE IF v[i] = Quote THEN JsonTokens(v, i + 1, TRUE, << >>, acc)
    ELSE IF IsJsonSpace(v[i]) THEN JsonTokens(v, i + 1, FALSE, << >>, acc)
    ELSE JsonTokens(v, i + 1, FALSE, << >>, Append(acc, SymbolToken(v[i])))

\* the token at i is the symbol c
IsSymbol(tk, i, c) == i >= 1 /\ i <= Len(tk) /\ ~tk[i].str /\ tk[i].s = <<c>>

\* The parser: the position after the JSON value (the members of an object, the
\* elements of an array) that starts at token i, or 0 when there is none.
RECURSIVE JsonValueEnd(_, _)
RECURSIVE JsonMembersEnd(_, _)
RECURSIVE JsonElementsEnd(_, _)
JsonValueEnd(tk, i) ==
    IF i < 1 \/ i > Len(tk) THEN 0
    ELSE IF tk[i].str THEN i + 1
    ELSE IF JsonLiteral(tk[i].s[1]) THEN i + 1
    ELSE IF IsSymbol(tk, i, "{")
    THEN IF IsSymbol(tk, i + 1, "}") THEN i + 2 ELSE JsonMembersEnd(tk, i + 1)
    ELSE IF IsSymbol(tk, i, "[")
    THEN IF IsSymbol(tk, i + 1, "]") THEN i + 2 ELSE JsonElementsEnd(tk, i + 1)
    ELSE 0

JsonMembersEnd(tk, i) ==
    IF i < 1 \/ i > Len(tk) \/ ~tk[i].str \/ ~IsSymbol(tk, i + 1, ":") THEN 0
    ELSE LET e == JsonValueEnd(tk, i + 2)
         IN IF IsSymbol(tk, e, "}") THEN e + 1
            ELSE IF IsSymbol(tk, e, ",") THEN JsonMembersEnd(tk, e + 1)
            ELSE 0

JsonElementsEnd(tk, i) ==
    LET e == JsonValueEnd(tk, i)
    IN IF IsSymbol(tk, e, "]") THEN e + 1
       ELSE IF IsSymbol(tk, e, ",") THEN JsonElementsEnd(tk, e + 1)
       ELSE 0

\* the string a run of symbols spells
RECURSIVE JoinSymbols(_)
JoinSymbols(s) == IF s = << >> THEN "" ELSE s[1] \o JoinSymbols(Tail(s))

\* the members of the object whose first key is token i, put into fields one
\* after the other (a key met again takes the later value): a string value as
\* it is, any other value as a value that is no string
RECURSIVE JsonMembers(_, _, _)
JsonMembers(tk, i, fields) ==
    IF i < 1 \/ i > Len(tk) \/ ~tk[i].str THEN fields
    ELSE LET e == JsonValueEnd(tk, i + 2)
             value == IF tk[i + 2].str THEN StrElem(tk[i + 2].s) ELSE NumElem(0)
             key == JoinSymbols(tk[i].s)
         IN JsonMembers(tk, e + 1,
                        [k \in (DOMAIN fields) \cup {key} |->
                            IF k = key THEN value ELSE fields[k]])

\* json.Unmarshal([]byte(v), &subMap) with subMap a map[string]interface{}: it
\* succeeds on the text of a JSON object and on null (which leaves the map nil)
\* and fails on every other text: a text that is not JSON, and the text of a
\* JSON string, number, boolean or array.  The keys of fields are the contents
\* of the key strings.
JsonUnmarshalMap(v) ==
    LET tk == JsonTokens(v, 1, FALSE, << >>, << >>)
    IN IF Len(tk) = 1 /\ IsSymbol(tk, 1, "null")
       THEN [ok |-> TRUE, fields |-> EmptyMap]
       ELSE IF IsSymbol(tk, 1, "{") /\ JsonValueEnd(tk, 1) = Len(tk) + 1
       THEN [ok |-> TRUE, fields |-> JsonMembers(tk, 2, EmptyMap)]
       ELSE [ok |-> FALSE, fields |-> EmptyMap]

\* nodeName, _ = m["name"].(string)
NameField(fields) ==
    IF "name" \in DOMAIN fields /\ fields["name"].isStr THEN fields["name"].s ELSE EmptyString

\* the switch that fills nodeName from entry.Value
DecodeNodeName(value) ==
    CASE value.kind = "object" -> NameField(value.fields)
      [] value.kind = "string" ->
            LET sub == JsonUnmarshalMap(value.text)
            IN IF sub.ok THEN NameField(sub.fields) ELSE Trim(value.text, Quote)
      [] OTHER -> EmptyString

\* ------------------------------------------------------------------ transition detector

\* faulty variant of handleDefaultRouteChange: the test that newDev is the device
\* of the default sink is missing
handleDefaultRouteChangeAnyDevice(newDev, nodes, devices, sink, order) ==
    LET cur == GetDeviceIDByNodeName(nodes, sink, order)
    IN IF ~cur.ok THEN 0
       ELSE IF newDev.ID \notin DOMAIN devices THEN 0
       ELSE IF IsPrivateDevice(devices[newDev.ID]) /\ IsPublicDevice(newDev) THEN 1
       ELSE 0

\* faulty variant of handleDefaultRouteChange: the registry is read after the
\* write, so the incoming snapshot is compared with itself
handleDefaultRouteChangeAfterWrite(newDev, nodes, devices, sink, order) ==
    LET cur == GetDeviceIDByNodeName(nodes, sink, order)
        written == MapPut(devices, newDev.ID, newDev)
    IN IF ~cur.ok THEN 0
       ELSE IF newDev.ID # cur.id THEN 0
       ELSE IF IsPrivateDevice(written[newDev.ID]) /\ IsPublicDevice(newDev) THEN 1
       ELSE 0

\* Path A.  The number of transitions the handler declares for newDev (its
\* "[Logic]" line), decided against the registry as it is before the write.
handleDefaultRouteChange(newDev, nodes, devices, sink, order) ==
    LET cur == GetDeviceIDByNodeName(nodes, sink, order)
    IN IF ~cur.ok THEN 0
       ELSE IF newDev.ID # cur.id THEN 0
       ELSE IF newDev.ID \notin DOMAIN devices THEN 0
       ELSE IF IsPrivateDevice(devices[newDev.ID]) /\ IsPublicDevice(newDev) THEN 1
       ELSE 0

\* faulty variant of FirstObservation: the startup case is not told apart
FirstObservationNever(sink) == FALSE

\* "if currentDefaultSink == \"\"": the first default.audio.sink observation
FirstObservation(sink) == sink = EmptyString

\* faulty variant of SinkTransition: the two devices are taken the wrong way round
SinkTransitionSwapped(oldDev, newDev) == IsPrivateDevice(newDev) /\ IsPublicDevice(oldDev)

\* the test that declares a Path B transition
SinkTransition(oldDev, newDev) == IsPrivateDevice(oldDev) /\ IsPublicDevice(newDev)

\* faulty variant of handleDefaultSinkChangeEntry: the new name is adopted only
\* when the prior and the new sink both resolve in the registry
handleDefaultSinkChangeEntryAdoptsResolved(entry, nodes, devices, sink, flag, orderOld, orderNew) ==
    LET nodeName == DecodeNodeName(entry.Value)
        old == GetDeviceIDByNodeName(nodes, sink, orderOld)
        new == GetDeviceIDByNodeName(nodes, nodeName, orderNew)
        skip == [sink |-> sink, flag |-> flag, declared |-> 0, name |-> EmptyString]
    IN IF entry.Key # SinkKey /\ entry.Key # ConfiguredKey THEN skip
       ELSE IF nodeName = EmptyString THEN skip
       ELSE IF entry.Key = SinkKey
       THEN IF FirstObservation(sink)
            THEN [sink |-> nodeName, flag |-> flag, declared |-> 0, name |-> nodeName]
            ELSE [sink |-> IF old.ok /\ new.ok THEN nodeName ELSE sink,
                  flag |-> FALSE, name |-> nodeName,
                  declared |-> IF /\ old.ok
                                  /\ new.ok
                                  /\ SinkTransition(DeviceAt(devices, old.id),
                                                    DeviceAt(devices, new.id))
                               THEN 1 ELSE 0]
       ELSE [sink |-> sink, flag |-> TRUE, declared |-> 0, name |-> nodeName]

\* faulty variant of handleDefaultSinkChangeEntry: the test nodeName == "" is
\* left out, so an entry whose name decodes to the empty string is processed
handleDefaultSinkChangeEntryKeepsEmptyName(entry, nodes, devices, sink, flag, orderOld, orderNew) ==
    LET nodeName == DecodeNodeName(entry.Value)
        old == GetDeviceIDByNodeName(nodes, sink, orderOld)
        new == GetDeviceIDByNodeName(nodes, nodeName, orderNew)
        skip == [sink |-> sink, flag |-> flag, declared |-> 0, name |-> EmptyString]
    IN IF entry.Key # SinkKey /\ entry.Key # ConfiguredKey THEN skip
       ELSE IF entry.Key = SinkKey
       THEN IF FirstObservation(sink)
            THEN [sink |-> nodeName, flag |-> flag, declared |-> 0, name |-> nodeName]
            ELSE [sink |-> nodeName, flag |-> FALSE, name |-> nodeName,
                  declared |-> IF /\ old.ok
                                  /\ new.ok
                                  /\ SinkTransition(DeviceAt(devices, old.id),
                                                    DeviceAt(devices, new.id))
                               THEN 1 ELSE 0]
       ELSE [sink |-> sink, flag |-> TRUE, declared |-> 0, name |-> nodeName]

\* One iteration of the loop of handleDefaultSinkChange: the session state after
\* the entry and the number of transitions declared for it.
handleDefaultSinkChangeEntry(entry, nodes, devices, sink, flag, orderOld, orderNew) ==
    LET nodeName == DecodeNodeName(entry.Value)
        old == GetDeviceIDByNodeName(nodes, sink, orderOld)
        new == GetDeviceIDByNodeName(nodes, nodeName, orderNew)
        skip == [sink |-> sink, flag |-> flag, declared |-> 0, name |-> EmptyString]
    IN IF entry.Key # SinkKey /\ entry.Key # ConfiguredKey THEN skip
       ELSE IF nodeName = EmptyString THEN skip
       ELSE IF entry.Key = SinkKey
       THEN IF FirstObservation(sink)
            THEN [sink |-> nodeName, flag |-> flag, declared |-> 0, name |-> nodeName]
            ELSE [sink |-> nodeName, flag |-> FALSE, name |-> nodeName,
                  declared |-> IF /\ old.ok
                                  /\ new.ok
                                  /\ SinkTransition(DeviceAt(devices, old.id),
                                                    DeviceAt(devices, new.id))
                               THEN 1 ELSE 0]
       ELSE [sink |-> sink, flag |-> TRUE, declared |-> 0, name |-> nodeName]

\* ------------------------------------------------------------------ inputs

NameHeadset == <<"sink.headset">>
NameHdmi == <<"sink.hdmi">>

PortInfo(portType) == <<NumElem(1), StrElem(PortTypeKey), StrElem(portType)>>

RoutesHeadset ==
    << RouteInfo(0, <<"o","u","t","p","u","t">>, 5, PortInfo(<<"h","e","a","d","s","e","t","-","o","u","t","p","u","t">>)) >>

RoutesHdmi ==
    << RouteInfo(0, <<"o","u","t","p","u","t">>, 5, PortInfo(<<"h","d","m","i","-","o","u","t","p","u","t">>)) >>

\* one port type that holds a Private and a Public keyword
RoutesBoth ==
    << RouteInfo(0, <<"O","u","t","p","u","t">>, 1,
                 <<NumElem(2), StrElem(<<"p","o","r","t",".","n","a","m","e">>), StrElem(<<"c","o","m","b","o">>),
                   StrElem(PortTypeKey), StrElem(<<"H","e","a","d","s","e","t","-","S","p","e","a","k","e","r">>)>>) >>

\* the dominant output route is the speaker; an input route and a lower output
\* route carry Private port types
RoutesDock ==
    << RouteInfo(0, <<"i","n","p","u","t">>, 9, PortInfo(<<"h","e","a","d","s","e","t">>)),
       RouteInfo(1, <<"o","u","t","p","u","t">>, 3, PortInfo(<<"h","e","a","d","p","h","o","n","e","s">>)),
       RouteInfo(2, <<"o","u","t","p","u","t">>, 7, PortInfo(<<"s","p","e","a","k","e","r">>)) >>

RouteLists == {RoutesHeadset, RoutesHdmi, RoutesBoth, RoutesDock}

\* node 10 under its name or with no name, node 20 under its own name or under
\* the name of node 10 (a stale duplicate that belongs to the other device)
NodeRecords ==
    { Node(10, NameHeadset, 1), Node(10, EmptyString, 1),
      Node(20, NameHdmi, 2), Node(20, NameHeadset, 2) }

DeviceRecords ==
    {Device(1, routes) : routes \in RouteLists}
    \cup {Device(2, RoutesHdmi), Device(2, RoutesHeadset)}

MetadataValues ==
    { ObjectValue([k \in {"name"} |-> StrElem(NameHeadset)]),
      ObjectValue([k \in {"name"} |-> StrElem(NameHdmi)]),
      ObjectValue([k \in {"name"} |-> NumElem(7)]),
      StringValue(<<Quote>> \o NameHeadset \o <<Quote>>),
      StringValue(JsonNameObject(NameHdmi[1])),
      StringValue(EmptyString),
      NumberValue,
      NullValue }

MetadataEntries ==
    {MetadataEntry(key, value) : key \in {SinkKey, ConfiguredKey}, value \in MetadataValues}
    \cup {MetadataEntry("default.audio.source", ObjectValue([k \in {"name"} |-> StrElem(NameHdmi)]))}

\* ------------------------------------------------------------------ the end-to-end trace

\* what `last` holds: the kind of record, the Node or Device record, the key and
\* decoded name of a metadata entry, the number of transitions declared for it,
\* the session state the handler found, and whether the record took the place
\* of a different record registered under the same identifier
Processed(kind, rec, key, name, declared, prevSink, prevFlag, replaced) ==
    [kind |-> kind, rec |-> rec, key |-> key, name |-> name, declared |-> declared,
     prevSink |-> prevSink, prevFlag |-> prevFlag, replaced |-> replaced]

TraceRecord(kind, rec, key, name) == [kind |-> kind, rec |-> rec, key |-> key, name |-> name]

EndToEndTrace ==
    << TraceRecord("Node", Node(10, NameHeadset, 1), "", EmptyString),
       TraceRecord("Device", Device(1, RoutesHeadset), "", EmptyString),
       TraceRecord("Metadata", ZeroDevice, SinkKey, NameHeadset),
       TraceRecord("Device", Device(2, RoutesHdmi), "", EmptyString),
       TraceRecord("Node", Node(20, NameHdmi, 2), "", EmptyString),
       TraceRecord("Metadata", ZeroDevice, SinkKey, NameHdmi) >>

\* the position in EndToEndTrace after a record, given the position before it
TraceAdvance(t, kind, rec, key, name) ==
    IF /\ t >= 0
       /\ t < Len(EndToEndTrace)
       /\ EndToEndTrace[t + 1].kind = kind
       /\ EndToEndTrace[t + 1] = TraceRecord(kind, rec, key, name)
    THEN t + 1
    ELSE -1

Follow(kind, rec, key, name, declared) ==
    LET t == TraceAdvance(trace, kind, rec, key, name)
    IN /\ trace' = t
       /\ traceDeclared' = IF t = -1 THEN 0 ELSE traceDeclared + declared

\* ------------------------------------------------------------------ the loop of main

\* pc: "decode" (at decoder.Decode), "dispatch" (inside dispatcher) or "exited"
\* (past the loop and cmd.Wait); decoder: "open", "eof", or "failed" when the
\* json.Decoder has stored an error, which every later Decode returns again;
\* left: the records of the current batch still to dispatch
Stream(pc, decoder, left) == [pc |-> pc, decoder |-> decoder, left |-> left]

StreamStart == Stream("decode", "open", 0)

\* the records and metadata entries the event source sends while the loop of
\* main is followed
StreamNodeRecords == {Node(10, NameHeadset, 1), Node(20, NameHdmi, 2)}

StreamDeviceRecords == {Device(1, RoutesHeadset), Device(2, RoutesHdmi)}

StreamEntries ==
    { MetadataEntry(SinkKey, ObjectValue([k \in {"name"} |-> StrElem(NameHeadset)])),
      MetadataEntry(SinkKey, ObjectValue([k \in {"name"} |-> StrElem(NameHdmi)])),
      MetadataEntry(ConfiguredKey, ObjectValue([k \in {"name"} |-> StrElem(NameHdmi)])) }

\* ------------------------------------------------------------------ classifier probe

\* op: the function applied to dev ("none" before the call, then "select",
\* "private" or "public"); route, ok: what GetHighestPriorityOutputRoute
\* returned; result: what IsPrivateDevice or IsPublicDevice returned
Probe(dev, op, route, ok, result) ==
    [dev |-> dev, op |-> op, route |-> route, ok |-> ok, result |-> result]

IdleProbe == Probe(ZeroDevice, "none", ZeroRoute, FALSE, FALSE)

\* an info list of two entries: a port.type pair with no leading entry
ShortInfo == <<StrElem(PortTypeKey), StrElem(<<"h","e","a","d","s","e","t">>)>>

ProbeInfos ==
    { ShortInfo,
      PortInfo(<<"h","e","a","d","p","h","o","n","e","s">>),
      PortInfo(<<"S","p","e","a","k","e","r">>) }

ProbeDirections == { <<"O","u","t","p","u","t">>, <<"i","n","p","u","t">> }

ProbePriorities == {1, 3, 7}

ProbeRoutes ==
    {RouteInfo(0, direction, priority, info) :
        direction \in ProbeDirections, priority \in ProbePriorities, info \in ProbeInfos}

\* the route lists of n routes
ProbeRouteLists(n) == [1..n -> ProbeRoutes]

\* ------------------------------------------------------------------ mute actuator state

\* the threads that call pw_mute_set
Callers == {1, 2}

\* the node identifiers pw_mute_set is called with
MuteNodeIds == {10, 20}

\* The thread loops pw_mute_init creates are numbered in the order of its
\* calls; the context, the core and the registry made by a call of pw_mute_init
\* carry the number of the loop of that call.  0 is NULL.
LoopIds == 1..MaxLifecycle

\* a thread loop: the owner of its lock (0: free) and its status: "unborn",
\* "created" (pw_thread_loop_new), "running" (pw_thread_loop_start), "stopped"
\* (pw_thread_loop_stop), "destroyed" (pw_thread_loop_destroy)
Loop(lock, status) == [lock |-> lock, status |-> status]

\* struct pw_data: the four pointers, pending_seq and done
PwData(loop, context, core, registry, pending_seq, done) ==
    [loop |-> loop, context |-> context, core |-> core, registry |-> registry,
     pending_seq |-> pending_seq, done |-> done]

\* static struct pw_data data = {0}
ZeroData == PwData(0, 0, 0, 0, 0, FALSE)

\* one call of pw_mute_set: pc is its position; seq the sequence number of its
\* set-param request (0: none issued); early: it was entered while pw_mute_init
\* had not returned 0, or after pw_mute_deinit was called; signalled: the
\* condition of its loop was signalled while it waited; outcome: how its last
\* call ended; disturbed: pw_mute_init or pw_mute_deinit was called while the
\* call was under way; loop: the loop it passed to pw_thread_loop_lock;
\* registry: the registry its proxy is bound on
MuteCall(pc, node, seq, early, signalled, outcome, disturbed, loop, registry) ==
    [pc |-> pc, node |-> node, seq |-> seq, early |-> early, signalled |-> signalled,
     outcome |-> outcome, disturbed |-> disturbed, loop |-> loop, registry |-> registry]

IdleCall == MuteCall("idle", 0, 0, FALSE, FALSE, "none", FALSE, 0, 0)

\* The actuator: data; init, the position of the thread that calls
\* pw_mute_init and pw_mute_deinit (0: neither called, or pw_mute_deinit
\* returned; 1..4: in pw_mute_init, that many objects created; 5: pw_mute_init
\* returned 0; -1: it returned -1; 6..9: in pw_mute_deinit, after the stop of
\* the loop, the registry, the core, the context); the loops; the calls;
\* inflight, the requests the server has not answered; nextSeq, where the
\* numbering of the requests stands; doneBy, the request whose reply set data.done; fault, a
\* NULL pointer, a destroyed loop or a lock of another loop was used; process:
\* "running", "exited" (_Exit(1)) or "killed" (a fault in the thread of a
\* loop); lifecycle, the calls of pw_mute_init and pw_mute_deinit made so far
Actuator(data, init, loops, calls, inflight, nextSeq, doneBy, fault, process, lifecycle) ==
    [data |-> data, init |-> init, loops |-> loops, calls |-> calls, inflight |-> inflight,
     nextSeq |-> nextSeq, doneBy |-> doneBy, fault |-> fault, process |-> process,
     lifecycle |-> lifecycle]

ActuatorStart ==
    Actuator(ZeroData, 0, [g \in LoopIds |-> Loop(0, "unborn")],
             [t \in Callers |-> IdleCall], {}, 1, 0, FALSE, "running", 0)

\* ------------------------------------------------------------------ actions

\* the detector and the loop of main before the first record
InitDetector ==
    /\ GlobalNodes = EmptyMap
    /\ GlobalDevices = EmptyMap
    /\ currentDefaultSink = EmptyString
    /\ IsUserOperation = FALSE
    /\ pending = 0
    /\ last = Processed("none", ZeroDevice, "", EmptyString, 0, EmptyString, FALSE, FALSE)
    /\ configuredSinceSink = FALSE
    /\ trace = 0
    /\ traceDeclared = 0
    /\ tick = 0
    /\ stream = StreamStart

Init ==
    /\ InitDetector
    /\ probe = IdleProbe
    /\ mute = ActuatorStart

\* faulty variant of onNodeUpdate: the Node handler clears the user-initiated flag
onNodeUpdateClearsFlag(node) ==
    /\ pending = 0
    /\ GlobalNodes' = MapPut(GlobalNodes, node.ID, node)
    /\ last' = Processed("Node", node, "", EmptyString, 0, currentDefaultSink, IsUserOperation,
                         node.ID \in DOMAIN GlobalNodes /\ GlobalNodes[node.ID] # node)
    /\ Follow("Node", node, "", EmptyString, 0)
    /\ tick' = 1 - tick
    /\ IsUserOperation' = FALSE
    /\ UNCHANGED <<GlobalDevices, currentDefaultSink, pending,
                   configuredSinceSink, probe, mute>>

\* dispatcher, case "PipeWire:Interface:Node"
onNodeUpdate(node) ==
    /\ pending = 0
    /\ GlobalNodes' = MapPut(GlobalNodes, node.ID, node)
    /\ last' = Processed("Node", node, "", EmptyString, 0, currentDefaultSink, IsUserOperation,
                         node.ID \in DOMAIN GlobalNodes /\ GlobalNodes[node.ID] # node)
    /\ Follow("Node", node, "", EmptyString, 0)
    /\ tick' = 1 - tick
    /\ UNCHANGED <<GlobalDevices, currentDefaultSink, IsUserOperation, pending,
                   configuredSinceSink, probe, mute>>

\* dispatcher, case "PipeWire:Interface:Device": the comparison, then the write
onDeviceUpdate(dev, order) ==
    /\ pending = 0
    /\ LET declared == handleDefaultRouteChange(dev, GlobalNodes, GlobalDevices,
                                               currentDefaultSink, order)
       IN /\ last' = Processed("Device", dev, "", EmptyString, declared,
                               currentDefaultSink, IsUserOperation,
                               dev.ID \in DOMAIN GlobalDevices /\ GlobalDevices[dev.ID] # dev)
          /\ Follow("Device", dev, "", EmptyString, declared)
    /\ GlobalDevices' = MapPut(GlobalDevices, dev.ID, dev)
    /\ tick' = 1 - tick
    /\ UNCHANGED <<GlobalNodes, currentDefaultSink, IsUserOperation, pending,
                   configuredSinceSink, probe, mute>>

\* one entry of a metadata list through the loop of handleDefaultSinkChange
ProcessEntry(entry, orderOld, orderNew) ==
    LET r == handleDefaultSinkChangeEntry(entry, GlobalNodes, GlobalDevices,
                                          currentDefaultSink, IsUserOperation,
                                          orderOld, orderNew)
    IN /\ currentDefaultSink' = r.sink
       /\ IsUserOperation' = r.flag
       /\ last' = Processed("Metadata", ZeroDevice, entry.Key,
                            IF entry.Key \in {SinkKey, ConfiguredKey}
                            THEN DecodeNodeName(entry.Value) ELSE EmptyString,
                            r.declared, currentDefaultSink, IsUserOperation, FALSE)
       /\ configuredSinceSink' = IF entry.Key = ConfiguredKey THEN TRUE
                                 ELSE IF entry.Key = SinkKey THEN FALSE
                                 ELSE configuredSinceSink
       /\ tick' = 1 - tick
       /\ UNCHANGED <<GlobalNodes, GlobalDevices, probe, mute>>

\* dispatcher, case "PipeWire:Interface:Metadata": a record whose list holds n
\* entries; the handler processes the first one
onMetadataUpdate(n, entry, orderOld, orderNew) ==
    /\ pending = 0
    /\ ProcessEntry(entry, orderOld, orderNew)
    /\ pending' = n - 1
    /\ IF n = 1
       THEN Follow("Metadata", ZeroDevice, entry.Key, last'.name, last'.declared)
       ELSE trace' = -1 /\ traceDeclared' = 0

\* handleDefaultSinkChange goes on to the next entry of the list
nextMetadataEntry(entry, orderOld, orderNew) ==
    /\ pending > 0
    /\ ProcessEntry(entry, orderOld, orderNew)
    /\ pending' = pending - 1
    /\ trace' = -1
    /\ traceDeclared' = 0

\* dispatcher: a record that does not decode, a record of another type, or a
\* Metadata record with an empty list
skipRecord ==
    /\ pending = 0
    /\ last' = Processed("Other", ZeroDevice, "", EmptyString, 0,
                         currentDefaultSink, IsUserOperation, FALSE)
    /\ trace' = -1
    /\ traceDeclared' = 0
    /\ tick' = 1 - tick
    /\ UNCHANGED <<GlobalNodes, GlobalDevices, currentDefaultSink, IsUserOperation,
                   pending, configuredSinceSink, probe, mute>>

\* the records in the order dispatcher handles them, whatever the batches they
\* arrive in
Next ==
    \/ \E node \in NodeRecords : onNodeUpdate(node) /\ UNCHANGED stream
    \/ \E dev \in DeviceRecords, order \in LookupOrders(GlobalNodes, currentDefaultSink) :
          onDeviceUpdate(dev, order) /\ UNCHANGED stream
    \/ \E n \in 1..MaxEntries, entry \in MetadataEntries,
          orderOld \in LookupOrders(GlobalNodes, currentDefaultSink) :
          \E orderNew \in LookupOrders(GlobalNodes, DecodeNodeName(entry.Value)) :
             onMetadataUpdate(n, entry, orderOld, orderNew) /\ UNCHANGED stream
    \/ \E entry \in MetadataEntries,
          orderOld \in LookupOrders(GlobalNodes, currentDefaultSink) :
          \E orderNew \in LookupOrders(GlobalNodes, DecodeNodeName(entry.Value)) :
             nextMetadataEntry(entry, orderOld, orderNew) /\ UNCHANGED stream
    \/ skipRecord /\ UNCHANGED stream

Spec == Init /\ [][Next]_vars

\* ------------------------------------------------------------------ the loop of main, batch by batch

\* faulty variant of continueBatch: the loop of dispatcher is left after the
\* record, whatever the batch still holds
abortBatch ==
    /\ stream.pc = "dispatch"
    /\ stream' = Stream("decode", stream.decoder, 0)

\* the end of one iteration of the loop of dispatcher (a handler returns, the
\* `continue` after a failed json.Unmarshal, a type no case matches): on to the
\* next record of the batch, or back to main after the last one
continueBatch ==
    /\ stream.pc = "dispatch"
    /\ stream' = IF stream.left = 1
                 THEN Stream("decode", stream.decoder, 0)
                 ELSE Stream("dispatch", stream.decoder, stream.left - 1)

\* main is at decoder.Decode and dispatcher has returned
atDecode == stream.pc = "decode" /\ pending = 0

\* what a step of the loop of main leaves alone
mainStep(kind) ==
    /\ last' = Processed(kind, ZeroDevice, "", EmptyString, 0,
                         currentDefaultSink, IsUserOperation, FALSE)
    /\ tick' = 1 - tick
    /\ UNCHANGED <<GlobalNodes, GlobalDevices, currentDefaultSink, IsUserOperation,
                   pending, configuredSinceSink, trace, traceDeclared, probe, mute>>

\* decoder.Decode returns nil: a batch of n records goes to dispatcher
decodeBatch(n) ==
    /\ atDecode
    /\ stream.decoder = "open"
    /\ stream' = IF n = 0 THEN stream ELSE Stream("dispatch", "open", n)
    /\ mainStep("Batch")

\* decoder.Decode returns io.EOF: break, cmd.Wait(), main returns
decodeEOF ==
    /\ atDecode
    /\ stream.decoder = "open"
    /\ stream' = Stream("exited", "eof", 0)
    /\ mainStep("EOF")

\* decoder.Decode reads a complete JSON value that is not an array: the error
\* of Unmarshal is returned and not stored; `continue`
decodeTypeError ==
    /\ atDecode
    /\ stream.decoder = "open"
    /\ stream' = stream
    /\ mainStep("DecodeError")

\* decoder.Decode fails to read a value (a syntax error, input that ends inside
\* a value, a read error): the Decoder stores the error; `continue`
decodeSyntaxError ==
    /\ atDecode
    /\ stream.decoder = "open"
    /\ stream' = Stream("decode", "failed", 0)
    /\ mainStep("DecodeError")

\* decoder.Decode on a Decoder that has stored an error returns that error
\* again, and it is not io.EOF; `continue`
decodeAgain ==
    /\ atDecode
    /\ stream.decoder = "failed"
    /\ stream' = stream
    /\ mainStep("DecodeError")

NextStream ==
    \/ \E n \in 0..MaxBatch : decodeBatch(n)
    \/ decodeEOF
    \/ decodeTypeError
    \/ decodeSyntaxError
    \/ decodeAgain
    \/ \E node \in StreamNodeRecords : onNodeUpdate(node) /\ continueBatch
    \/ \E dev \in StreamDeviceRecords, order \in LookupOrders(GlobalNodes, currentDefaultSink) :
          onDeviceUpdate(dev, order) /\ continueBatch
    \/ \E n \in 1..MaxEntries, entry \in StreamEntries,
          orderOld \in LookupOrders(GlobalNodes, currentDefaultSink) :
          \E orderNew \in LookupOrders(GlobalNodes, DecodeNodeName(entry.Value)) :
             /\ onMetadataUpdate(n, entry, orderOld, orderNew)
             /\ IF n = 1 THEN continueBatch ELSE stream.pc = "dispatch" /\ stream' = stream
    \/ \E entry \in StreamEntries,
          orderOld \in LookupOrders(GlobalNodes, currentDefaultSink) :
          \E orderNew \in LookupOrders(GlobalNodes, DecodeNodeName(entry.Value)) :
             /\ nextMetadataEntry(entry, orderOld, orderNew)
             /\ IF pending = 1 THEN continueBatch ELSE stream' = stream
    \/ skipRecord /\ continueBatch

SpecStream == Init /\ [][NextStream]_vars

\* ------------------------------------------------------------------ the classifier, one device at a time

\* a device with any route list of at most MaxRoutes routes is handed to the
\* classifier
InitRoutes ==
    /\ InitDetector
    /\ mute = ActuatorStart
    /\ \E n \in 0..MaxRoutes : \E routes \in ProbeRouteLists(n) :
          probe = Probe(Device(1, routes), "none", ZeroRoute, FALSE, FALSE)

probeFrame ==
    <<GlobalNodes, GlobalDevices, currentDefaultSink, IsUserOperation, pending, last,
      configuredSinceSink, trace, traceDeclared, tick, stream, mute>>

\* topRoute, ok := GetHighestPriorityOutputRoute(dev)
selectRoute ==
    /\ probe.op = "none"
    /\ LET top == GetHighestPriorityOutputRoute(probe.dev)
       IN probe' = Probe(probe.dev, "select", top.route, top.ok, FALSE)
    /\ UNCHANGED probeFrame

\* IsPrivateDevice(dev)
classifyPrivate ==
    /\ probe.op = "none"
    /\ probe' = Probe(probe.dev, "private", ZeroRoute, FALSE, IsPrivateDevice(probe.dev))
    /\ UNCHANGED probeFrame

\* IsPublicDevice(dev)
classifyPublic ==
    /\ probe.op = "none"
    /\ probe' = Probe(probe.dev, "public", ZeroRoute, FALSE, IsPublicDevice(probe.dev))
    /\ UNCHANGED probeFrame

NextRoutes ==
    \/ selectRoute
    \/ classifyPrivate
    \/ classifyPublic

SpecRoutes == InitRoutes /\ [][NextRoutes]_vars

\* ------------------------------------------------------------------ the mute actuator (pipewire_mute.c)

muteFrame ==
    <<GlobalNodes, GlobalDevices, currentDefaultSink, IsUserOperation, pending, last,
      configuredSinceSink, trace, traceDeclared, tick, stream, probe>>

\* the process has not ended: no fault has killed it, on_core_error has not run _Exit
Alive ==
    /\ mute.process = "running"
    /\ \A t \in Callers : mute.calls[t].pc # "crashed"

\* the call of t returns: how it ended is kept, the rest is forgotten
Returned(t, outcome) ==
    MuteCall("idle", 0, 0, mute.calls[t].early, FALSE, outcome, FALSE, 0, 0)

\* the calls once pw_mute_init or pw_mute_deinit has been called: those under
\* way are disturbed
Disturbed(calls) ==
    [t \in Callers |-> IF calls[t].pc # "idle"
                       THEN [calls[t] EXCEPT !.disturbed = TRUE]
                       ELSE calls[t]]

\* the lock of loop g is free
LockFree(g) == mute.loops[g].lock = 0

\* the loop the call of t locked is the one data.loop points to, so that
\* pw_thread_loop_timed_wait(data.loop) and pw_thread_loop_unlock(data.loop)
\* work on the lock the call holds
OwnLoop(t) == mute.data.loop = mute.calls[t].loop

\* pw_mute_init, one creation at a time: the thread loop, the context, the core,
\* the registry, then the start of the loop.  Each result is stored in data,
\* NULL included, and on NULL pw_mute_init returns -1 with the rest of data as
\* it was.  Nothing tests whether data is set already: the function can be
\* called again, after a failure or a success; the objects it creates are new
\* ones (the new loop has its own lock and its own thread), the old ones stay
\* as they are.
pw_mute_init(ok) ==
    /\ Alive
    /\ mute.init \in {-1, 0, 5} => mute.lifecycle < MaxLifecycle
    /\ mute.init \in -1..5
    /\ LET new == mute.lifecycle + 1
           cur == mute.data.loop
       IN mute' = CASE mute.init \in {-1, 0, 5} ->
                         [mute EXCEPT !.init = IF ok THEN 1 ELSE -1,
                                      !.lifecycle = new,
                                      !.data.loop = IF ok THEN new ELSE 0,
                                      !.loops[new].status = IF ok THEN "created" ELSE @,
                                      !.calls = Disturbed(@)]
                    [] mute.init = 1 ->
                         [mute EXCEPT !.init = IF ok THEN 2 ELSE -1,
                                      !.data.context = IF ok THEN cur ELSE 0]
                    [] mute.init = 2 ->
                         [mute EXCEPT !.init = IF ok THEN 3 ELSE -1,
                                      !.data.core = IF ok THEN cur ELSE 0]
                    [] mute.init = 3 ->
                         [mute EXCEPT !.init = IF ok THEN 4 ELSE -1,
                                      !.data.registry = IF ok THEN cur ELSE 0]
                    [] mute.init = 4 ->
                         [mute EXCEPT !.init = IF ok THEN 5 ELSE -1,
                                      !.loops[cur].status = IF ok THEN "running" ELSE @]
    /\ UNCHANGED muteFrame

\* pw_mute_deinit, called by the thread that calls pw_mute_init, between two
\* calls of it, one statement at a time and with no lock held:
\* pw_thread_loop_stop, which returns when the thread of the loop has ended,
\* and that thread takes the loop lock before it ends; then the registry, the
\* core and the context are destroyed and set to NULL; then the loop.
\* pending_seq and done stay.
pw_mute_deinit ==
    /\ Alive
    /\ mute.init \in {-1, 0, 5, 6, 7, 8, 9}
    /\ mute.init \in {-1, 0, 5} => mute.lifecycle < MaxLifecycle
    /\ LET cur == mute.data.loop
       IN CASE mute.init \in {-1, 0, 5} ->
                 /\ (cur # 0 /\ mute.loops[cur].status = "running") => LockFree(cur)
                 /\ mute' = [mute EXCEPT !.init = 6,
                                         !.lifecycle = @ + 1,
                                         !.loops = IF cur # 0 /\ @[cur].status = "running"
                                                   THEN [@ EXCEPT ![cur].status = "stopped"]
                                                   ELSE @,
                                         !.calls = Disturbed(@)]
            [] mute.init = 6 -> mute' = [mute EXCEPT !.init = 7, !.data.registry = 0]
            [] mute.init = 7 -> mute' = [mute EXCEPT !.init = 8, !.data.core = 0]
            [] mute.init = 8 -> mute' = [mute EXCEPT !.init = 9, !.data.context = 0]
            [] mute.init = 9 ->
                 mute' = [mute EXCEPT !.init = 0,
                                      !.data.loop = 0,
                                      !.loops = IF cur # 0
                                                THEN [@ EXCEPT ![cur] = Loop(0, "destroyed")]
                                                ELSE @]
    /\ UNCHANGED muteFrame

\* on_core_error, run by the thread of a loop (under the lock of that loop) for
\* an error event of its core: it logs, and on -EPIPE or an error of the core
\* object itself (id 0, PW_ID_CORE) it ends the process with _Exit(1)
on_core_error(res, id) ==
    /\ Alive
    /\ \E g \in LoopIds : mute.loops[g].status = "running" /\ LockFree(g)
    /\ mute' = IF res = "EPIPE" \/ id = 0
               THEN [mute EXCEPT !.process = "exited"]
               ELSE mute
    /\ UNCHANGED muteFrame

\* pw_mute_set is entered and reaches pw_thread_loop_lock(data.loop).  With
\* data.loop NULL the lock call dereferences NULL: the process is killed, or the
\* call gets past it and returns.
muteEnter(t, node, survives) ==
    /\ Alive
    /\ mute.calls[t].pc = "idle"
    /\ mute' = IF mute.data.loop # 0
               THEN [mute EXCEPT !.calls[t] =
                        MuteCall("lock", node, 0, mute.init # 5, FALSE, "none", FALSE,
                                 mute.data.loop, 0)]
               ELSE [mute EXCEPT !.fault = TRUE,
                                 !.calls[t] = MuteCall(IF survives THEN "idle" ELSE "crashed",
                                                       0, 0, TRUE, FALSE, "fault", FALSE, 0, 0)]
    /\ UNCHANGED muteFrame

\* pw_thread_loop_lock returns: t owns the lock of the loop it passed
muteLock(t) ==
    /\ Alive
    /\ mute.calls[t].pc = "lock"
    /\ mute.loops[mute.calls[t].loop].status # "destroyed"
    /\ LockFree(mute.calls[t].loop)
    /\ mute' = [mute EXCEPT !.loops[mute.calls[t].loop].lock = t, !.calls[t].pc = "bind"]
    /\ UNCHANGED muteFrame

\* out: pw_thread_loop_unlock(data.loop) gives up the lock the call holds when
\* data.loop is still the loop the call locked; otherwise it is passed NULL or
\* another loop, and the lock the call holds stays taken
Unlocked(t, loops) ==
    IF OwnLoop(t) THEN [loops EXCEPT ![mute.calls[t].loop].lock = 0] ELSE loops

\* proxy = pw_registry_bind(data.registry, ...).  With data.registry NULL the
\* call dereferences NULL (killed, or past it as with a failed bind); otherwise
\* the proxy is bound and the listener added, or it is NULL: goto out, where
\* pw_thread_loop_unlock(data.loop) goes wrong (killed, or past it) when
\* data.loop is no longer the loop the call locked.
muteBind(t, bound, survives) ==
    /\ Alive
    /\ mute.calls[t].pc = "bind"
    /\ mute' = IF mute.data.registry = 0 \/ (~bound /\ ~OwnLoop(t))
               THEN IF survives
                    THEN [mute EXCEPT !.fault = TRUE,
                                      !.loops = Unlocked(t, @),
                                      !.calls[t] = Returned(t, "fault")]
                    ELSE [mute EXCEPT !.fault = TRUE, !.calls[t].pc = "crashed"]
               ELSE IF bound
                    THEN [mute EXCEPT !.calls[t].pc = "request",
                                      !.calls[t].registry = mute.data.registry]
                    ELSE [mute EXCEPT !.loops = Unlocked(t, @),
                                      !.calls[t] = Returned(t, "bindfailed")]
    /\ UNCHANGED muteFrame

\* The sequence number pw_node_set_param returns.  The numbers of the core grow
\* with every request, and the code only compares them: the number of a reply
\* with data.pending_seq.  A reply reaches on_node_param only while the
\* listener of its call is in place, so a number matters as long as its call
\* is under way.  The model counts 1..MaxSeq round and round and passes over
\* the numbers of the calls under way, so that two requests whose numbers the
\* code compares never share one.
SeqAfter(n) == (n % MaxSeq) + 1

RECURSIVE FreeSeq(_)
FreeSeq(n) ==
    IF \E t \in Callers : mute.calls[t].seq = n THEN FreeSeq(SeqAfter(n)) ELSE n

\* data.done = false; data.pending_seq = pw_node_set_param(...)
muteRequest(t) ==
    /\ Alive
    /\ mute.calls[t].pc = "request"
    /\ LET seq == FreeSeq(mute.nextSeq)
       IN mute' = [mute EXCEPT !.data.done = FALSE,
                               !.data.pending_seq = seq,
                               !.calls[t].seq = seq,
                               !.calls[t].pc = "check",
                               !.inflight = @ \cup {seq},
                               !.nextSeq = SeqAfter(seq)]
    /\ UNCHANGED muteFrame

\* spa_hook_remove, pw_proxy_destroy, pw_thread_loop_unlock, return
Finished(t, outcome) ==
    [mute EXCEPT !.loops = Unlocked(t, @),
                 !.inflight = @ \ {mute.calls[t].seq},
                 !.calls[t] = Returned(t, outcome)]

\* while (!data.done): with data.done set the call cleans up and returns;
\* otherwise pw_thread_loop_timed_wait gives up the loop lock and waits
muteCheck(t) ==
    /\ Alive
    /\ mute.calls[t].pc = "check"
    /\ OwnLoop(t)
    /\ mute' = IF mute.data.done
               THEN Finished(t, IF mute.doneBy = mute.calls[t].seq
                                THEN "replied" ELSE "other reply")
               ELSE [mute EXCEPT !.loops[mute.calls[t].loop].lock = 0,
                                 !.calls[t].pc = "waiting",
                                 !.calls[t].signalled = FALSE]
    /\ UNCHANGED muteFrame

\* pw_thread_loop_timed_wait returns 0 (the condition was signalled) with the
\* loop lock taken again: back to the test of data.done
muteWake(t) ==
    /\ Alive
    /\ mute.calls[t].pc = "waiting"
    /\ mute.calls[t].signalled
    /\ mute.loops[mute.calls[t].loop].status # "destroyed"
    /\ LockFree(mute.calls[t].loop)
    /\ mute' = [mute EXCEPT !.loops[mute.calls[t].loop].lock = t, !.calls[t].pc = "check"]
    /\ UNCHANGED muteFrame

\* pw_thread_loop_timed_wait returns non-zero after 2 seconds (or on an error)
\* with the loop lock taken again: the warning, break, clean up, return
muteTimeout(t) ==
    /\ Alive
    /\ mute.calls[t].pc = "waiting"
    /\ LockFree(mute.calls[t].loop)
    /\ OwnLoop(t)
    /\ mute' = Finished(t, "timeout")
    /\ UNCHANGED muteFrame

\* A call under way works on a loop that pw_mute_deinit has destroyed; or it is
\* at the test of data.done, or comes back from its wait at the timeout, and
\* passes a data.loop that is NULL or another loop than the one it locked to
\* pw_thread_loop_timed_wait or pw_thread_loop_unlock.  The process is killed,
\* or the call gets past it and returns, the lock it holds still taken.
muteDisturbedFault(t, survives) ==
    /\ Alive
    /\ mute.calls[t].pc # "idle"
    /\ \/ mute.loops[mute.calls[t].loop].status = "destroyed"
       \/ mute.calls[t].pc = "check" /\ ~OwnLoop(t)
       \/ mute.calls[t].pc = "waiting" /\ ~OwnLoop(t) /\ LockFree(mute.calls[t].loop)
    /\ mute' = IF survives
               THEN [mute EXCEPT !.fault = TRUE,
                                 !.loops[mute.calls[t].loop].lock =
                                     IF mute.loops[mute.calls[t].loop].status = "destroyed"
                                     THEN 0 ELSE t,
                                 !.inflight = @ \ {mute.calls[t].seq},
                                 !.calls[t] = Returned(t, "fault")]
               ELSE [mute EXCEPT !.fault = TRUE, !.calls[t].pc = "crashed"]
    /\ UNCHANGED muteFrame

\* the call that issued the request seq
Requester(seq) == CHOOSE t \in Callers : mute.calls[t].seq = seq

\* The thread of the loop of the registry the request seq went through, holding
\* the lock of that loop, delivers the reply to the listener of the proxy.
\* pw_thread_loop_signal(d->loop) wakes the calls that wait on data.loop; with
\* data.loop NULL it dereferences NULL: the process is killed or not.
on_node_param(seq) ==
    /\ Alive
    /\ seq \in mute.inflight
    /\ mute.loops[mute.calls[Requester(seq)].registry].status = "running"
    /\ LockFree(mute.calls[Requester(seq)].registry)
    /\ \E survives \in BOOLEAN :
          mute' = IF seq # mute.data.pending_seq
                  THEN [mute EXCEPT !.inflight = @ \ {seq}]
                  ELSE IF mute.data.loop # 0
                  THEN [mute EXCEPT !.inflight = @ \ {seq},
                                    !.data.done = TRUE,
                                    !.doneBy = seq,
                                    !.calls = [t \in Callers |->
                                                 IF @[t].pc = "waiting"
                                                    /\ @[t].loop = mute.data.loop
                                                 THEN [@[t] EXCEPT !.signalled = TRUE]
                                                 ELSE @[t]]]
                  ELSE [mute EXCEPT !.inflight = @ \ {seq},
                                    !.data.done = TRUE,
                                    !.doneBy = seq,
                                    !.fault = TRUE,
                                    !.process = IF survives THEN @ ELSE "killed"]
    /\ UNCHANGED muteFrame

NextMute ==
    \/ \E ok \in BOOLEAN : pw_mute_init(ok)
    \/ pw_mute_deinit
    \/ \E res \in {"EPIPE", "EINVAL"}, id \in {0, 1} : on_core_error(res, id)
    \/ \E t \in Callers, survives \in BOOLEAN : muteDisturbedFault(t, survives)
    \/ \E t \in Callers, node \in MuteNodeIds, survives \in BOOLEAN :
          muteEnter(t, node, survives)
    \/ \E t \in Callers : muteLock(t)
    \/ \E t \in Callers, bound \in BOOLEAN, survives \in BOOLEAN : muteBind(t, bound, survives)
    \/ \E t \in Callers : muteRequest(t)
    \/ \E t \in Callers : muteCheck(t)
    \/ \E t \in Callers : muteWake(t)
    \/ \E t \in Callers : muteTimeout(t)
    \/ \E seq \in 1..MaxSeq : on_node_param(seq)

SpecMute == Init /\ [][NextMute]_vars

\* The threads that call pw_mute_set are scheduled: a call that can take its
\* next step takes it.  The loop lock is a mutex that promises no turn: a call
\* at pw_thread_loop_lock, or on its way back from pw_thread_loop_timed_wait
\* (on the signal, or after its 2 seconds), goes on once the lock stays free.
\* Nothing is assumed of pw_mute_init, of pw_mute_deinit, of new calls, or of
\* the replies of the server.
MuteFairness ==
    \A t \in Callers :
        /\ WF_vars(muteLock(t))
        /\ WF_vars(\E bound \in BOOLEAN, survives \in BOOLEAN : muteBind(t, bound, survives))
        /\ WF_vars(muteRequest(t))
        /\ WF_vars(muteCheck(t))
        /\ WF_vars(muteWake(t) \/ muteTimeout(t))

SpecMuteFair == SpecMute /\ MuteFairness

\* ------------------------------------------------------------------ properties

\* the nodes of the registry that carry a name
NodesNamed(nodes, name) == {id \in DOMAIN nodes : nodes[id].NodeName = name}

\* every lookup of name ends at a device that classifies Private
SinkIsPrivate(nodes, devices, name) ==
    /\ NodesNamed(nodes, name) # {}
    /\ \A id \in NodesNamed(nodes, name) : IsPrivateDevice(DeviceAt(devices, nodes[id].DeviceID))

\* every lookup of name ends at a device that classifies Public
SinkIsPublic(nodes, devices, name) ==
    /\ NodesNamed(nodes, name) # {}
    /\ \A id \in NodesNamed(nodes, name) : IsPublicDevice(DeviceAt(devices, nodes[id].DeviceID))

\* the step processes a default.audio.sink entry with a non-empty decoded name
SinkEntryStep == last'.kind = "Metadata" /\ last'.key = SinkKey /\ last'.name # EmptyString

\* the step takes the default sink from a Private device to a Public device
PrivateToPublicStep ==
    /\ SinkEntryStep
    /\ currentDefaultSink # EmptyString
    /\ SinkIsPrivate(GlobalNodes, GlobalDevices, currentDefaultSink)
    /\ SinkIsPublic(GlobalNodes, GlobalDevices, last'.name)

\* C1: a default.audio.sink entry that changes the default sink from a node on
\* a Private device to a node on a Public device declares no transition when a
\* default.configured.audio.sink entry was processed before it, with no
\* default.audio.sink entry in between, and has set the user-initiated flag.
C1_UserSwitchDeclaresNothing ==
    [][(/\ PrivateToPublicStep
        /\ last'.name # currentDefaultSink
        /\ configuredSinceSink
        /\ IsUserOperation) => last'.declared = 0]_vars

\* C2: with a non-empty prior default sink and the user-initiated flag not set, a
\* default.audio.sink entry that takes the default sink from a Private device to
\* a Public device declares exactly one transition; no entry declares two.
C2_SinkChangeDeclaresOnce ==
    [][/\ (PrivateToPublicStep /\ ~IsUserOperation) => last'.declared = 1
       /\ last'.kind = "Metadata" => last'.declared \in {0, 1}]_vars

C2_Witness ==
    /\ last.kind = "Metadata"
    /\ last.key = SinkKey
    /\ last.prevSink # EmptyString
    /\ ~last.prevFlag
    /\ last.declared = 1
    /\ currentDefaultSink = last.name

\* C3: the first default.audio.sink entry with a non-empty name (no default sink
\* recorded before it) declares no transition, whatever the registry holds, and
\* makes that name the current default sink.
C3_FirstObservationAdopts ==
    (/\ last.kind = "Metadata"
     /\ last.key = SinkKey
     /\ last.name # EmptyString
     /\ last.prevSink = EmptyString)
    => (last.declared = 0 /\ currentDefaultSink = last.name)

\* the first observation, made while the registry holds a Private device behind
\* a node without a name and a Public device behind the new sink
C3_Witness ==
    /\ last.kind = "Metadata"
    /\ last.key = SinkKey
    /\ last.name # EmptyString
    /\ last.prevSink = EmptyString
    /\ SinkIsPrivate(GlobalNodes, GlobalDevices, EmptyString)
    /\ SinkIsPublic(GlobalNodes, GlobalDevices, last.name)

\* C4: right after a default.audio.sink entry with a non-empty decoded name has
\* been processed, the first observation included, IsUserOperation is false.
C4_FlagClearedAfterSinkEntry ==
    (last.kind = "Metadata" /\ last.key = SinkKey /\ last.name # EmptyString)
    => ~IsUserOperation

\* C5: right after a default.configured.audio.sink entry has been processed,
\* whatever its value decodes to, IsUserOperation is true.
C5_ConfiguredKeySetsFlag ==
    (last.kind = "Metadata" /\ last.key = ConfiguredKey) => IsUserOperation

\* the Path A conditions for the incoming snapshot dev, taking node id as the
\* node of the default sink: a prior snapshot of dev.ID is registered, dev.ID is
\* the device of the node, the prior snapshot is Private and dev is Public
PathAHolds(nodes, devices, id, dev) ==
    /\ dev.ID \in DOMAIN devices
    /\ nodes[id].DeviceID = dev.ID
    /\ IsPrivateDevice(devices[dev.ID])
    /\ IsPublicDevice(dev)

\* C6: a Device update declares a transition if and only if a prior snapshot of
\* the same identifier is registered, the identifier is the device of the node
\* named by currentDefaultSink, the prior snapshot is Private and the incoming
\* one is Public.
C6_PathADetection ==
    [][last'.kind = "Device" =>
          LET named == NodesNamed(GlobalNodes, currentDefaultSink)
          IN /\ last'.declared \in {0, 1}
             /\ last'.declared = 1 =>
                   \E id \in named : PathAHolds(GlobalNodes, GlobalDevices, id, last'.rec)
             /\ (/\ named # {}
                 /\ \A id \in named : PathAHolds(GlobalNodes, GlobalDevices, id, last'.rec))
                => last'.declared = 1]_vars

C6_Witness ==
    /\ last.kind = "Device"
    /\ last.declared = 1
    /\ \E id \in NodesNamed(GlobalNodes, currentDefaultSink) :
          GlobalNodes[id].DeviceID = last.rec.ID

\* C7: a Device update is compared with the registry entry as it was before the
\* event, never with the incoming snapshot, and when onDeviceUpdate returns the
\* registry holds the incoming snapshot.
C7_PriorStateOrdering ==
    [][last'.kind = "Device" =>
          /\ last'.rec.ID \in DOMAIN GlobalDevices'
          /\ GlobalDevices'[last'.rec.ID] = last'.rec
          /\ last'.declared = 1 =>
                /\ last'.rec.ID \in DOMAIN GlobalDevices
                /\ IsPrivateDevice(GlobalDevices[last'.rec.ID])]_vars

\* a declared transition whose incoming snapshot is not Private: comparing it
\* with itself would have declared nothing
C7_Witness ==
    /\ last.kind = "Device"
    /\ last.declared = 1
    /\ ~IsPrivateDevice(last.rec)
    /\ GlobalDevices[last.rec.ID] = last.rec

\* C8: once a default sink is on record, dispatching the same Node or Device
\* record twice in a row declares no transition on the second application, for
\* every port.type string.
C8_ReplayDeclaresNothing ==
    [][(/\ currentDefaultSink # EmptyString
        /\ last.kind \in {"Node", "Device"}
        /\ last'.kind = last.kind
        /\ last'.rec = last.rec) => last'.declared = 0]_vars

\* C9: the six records of EndToEndTrace, dispatched in order from the empty
\* state, declare exactly one transition, while the last record is processed.
C9_EndToEndTrace ==
    /\ (trace >= 0 /\ trace < Len(EndToEndTrace)) => traceDeclared = 0
    /\ trace = Len(EndToEndTrace) => (traceDeclared = 1 /\ last.declared = 1)

C9_Witness == trace = Len(EndToEndTrace) /\ currentDefaultSink = NameHdmi

\* C11: after every dispatched record each registry map holds, under every
\* identifier, exactly the Node (Device) record dispatched last with that
\* identifier: a Node record replaces the whole entry of its identifier and
\* leaves every other entry as it was, any other record leaves GlobalNodes as it
\* was, likewise for Device records and GlobalDevices, and no identifier ever
\* leaves a map.
C11_RegistryLastWriteWins ==
    [][/\ DOMAIN GlobalNodes \subseteq DOMAIN GlobalNodes'
       /\ DOMAIN GlobalDevices \subseteq DOMAIN GlobalDevices'
       /\ IF last'.kind = "Node"
          THEN GlobalNodes' = [id \in DOMAIN GlobalNodes \cup {last'.rec.ID} |->
                                  IF id = last'.rec.ID THEN last'.rec ELSE GlobalNodes[id]]
          ELSE GlobalNodes' = GlobalNodes
       /\ IF last'.kind = "Device"
          THEN GlobalDevices' = [id \in DOMAIN GlobalDevices \cup {last'.rec.ID} |->
                                    IF id = last'.rec.ID THEN last'.rec ELSE GlobalDevices[id]]
          ELSE GlobalDevices' = GlobalDevices]_vars

\* a Node record without a name has just taken the place of a different record
\* of node 10, with two nodes and two devices registered
C11_Witness ==
    /\ last.kind = "Node"
    /\ last.replaced
    /\ last.rec = Node(10, EmptyString, 1)
    /\ GlobalNodes[10] = last.rec
    /\ DOMAIN GlobalNodes = {10, 20}
    /\ DOMAIN GlobalDevices = {1, 2}

\* C14: Node and Device records leave currentDefaultSink and IsUserOperation as
\* they were, metadata entries leave GlobalNodes and GlobalDevices as they were,
\* and the session state changes only while handleDefaultSinkChange processes an
\* entry of one of its two keys.
C14_SessionStateFrame ==
    [][/\ last'.kind \in {"Node", "Device"} =>
             (currentDefaultSink' = currentDefaultSink /\ IsUserOperation' = IsUserOperation)
       /\ last'.kind = "Metadata" =>
             (GlobalNodes' = GlobalNodes /\ GlobalDevices' = GlobalDevices)
       /\ (currentDefaultSink' # currentDefaultSink \/ IsUserOperation' # IsUserOperation) =>
             (last'.kind = "Metadata" /\ last'.key \in {SinkKey, ConfiguredKey})]_vars

\* a Node record replaced another while the user-initiated flag was set and a
\* default sink was on record, and both are still as the handler found them
C14_Witness ==
    /\ last.kind = "Node"
    /\ last.replaced
    /\ last.prevFlag
    /\ IsUserOperation
    /\ last.prevSink # EmptyString
    /\ currentDefaultSink = last.prevSink

\* C19: right after a default.audio.sink entry with a non-empty decoded name n
\* has been processed, currentDefaultSink is n.
C19_UnconditionalAdoption ==
    (last.kind = "Metadata" /\ last.key = SinkKey /\ last.name # EmptyString)
    => currentDefaultSink = last.name

\* a sink change, not the first observation, that declared nothing and whose
\* prior and new names both resolve to no node of the registry
C19_Witness ==
    /\ last.kind = "Metadata"
    /\ last.key = SinkKey
    /\ last.name # EmptyString
    /\ last.prevSink # EmptyString
    /\ last.prevSink # last.name
    /\ last.declared = 0
    /\ NodesNamed(GlobalNodes, last.prevSink) = {}
    /\ NodesNamed(GlobalNodes, last.name) = {}
    /\ currentDefaultSink = last.name

\* C20: while currentDefaultSink is empty no Device, Node or Metadata record
\* declares a transition.
C20_NoDetectionBeforeSink ==
    [][currentDefaultSink = EmptyString => last'.declared = 0]_vars

\* C12: a record of another type, or one that fails to decode, leaves both
\* registry maps, currentDefaultSink and IsUserOperation as they were and
\* declares nothing, and the loop of dispatcher goes on: it is at the next
\* record of the batch when one is left, and back in main, with the decoder as
\* it was, after the last one.
C12_DispatcherSkips ==
    [][(stream.pc = "dispatch" /\ last'.kind = "Other") =>
          /\ GlobalNodes' = GlobalNodes
          /\ GlobalDevices' = GlobalDevices
          /\ currentDefaultSink' = currentDefaultSink
          /\ IsUserOperation' = IsUserOperation
          /\ last'.declared = 0
          /\ stream'.left = stream.left - 1
          /\ stream'.decoder = stream.decoder
          /\ stream'.pc = IF stream.left > 1 THEN "dispatch" ELSE "decode"]_vars

\* a record has just been skipped with a default sink on record, the flag set
\* and both maps filled, and dispatcher still has a record of the batch to handle
C12_Witness ==
    /\ last.kind = "Other"
    /\ stream.pc = "dispatch"
    /\ stream.left >= 1
    /\ currentDefaultSink # EmptyString
    /\ IsUserOperation
    /\ DOMAIN GlobalNodes # {}
    /\ DOMAIN GlobalDevices # {}

\* C13: once decoder.Decode has failed for good, at the end of the input or on
\* a value it cannot read, main leaves the loop: it takes no further turn of the
\* loop on the failed decoder.
C13_TerminalErrorEndsLoop ==
    [][stream.decoder # "open" => stream'.pc = "exited"]_vars

\* the positions of the routes of a list whose direction is "output", in any case
OutputPositions(routes) ==
    {i \in 1..Len(routes) : ToLower(routes[i].Direction) = <<"o","u","t","p","u","t">>}

\* C15: for a device with at least one output route,
\* GetHighestPriorityOutputRoute returns found = true and one of the output
\* routes of the list whose priority is at least that of every output route,
\* wherever it stands in the list and whatever the other routes are.
C15_RouteSelection ==
    LET routes == probe.dev.Route
        outs == OutputPositions(routes)
    IN (probe.op = "select" /\ outs # {}) =>
          /\ probe.ok
          /\ \E i \in outs : routes[i] = probe.route
          /\ \A j \in outs : probe.route.Priority >= routes[j].Priority

\* the route selected stands after an output route of lower priority, and an
\* input route of the list has a higher priority than it
C15_Witness ==
    LET routes == probe.dev.Route
    IN /\ probe.op = "select"
       /\ probe.ok
       /\ Len(routes) = 3
       /\ 1 \in OutputPositions(routes)
       /\ routes[1].Priority < probe.route.Priority
       /\ \E i \in 1..3 : /\ i \notin OutputPositions(routes)
                            /\ routes[i].Priority > probe.route.Priority

\* C16: IsPrivateDevice and IsPublicDevice are both false for a device with no
\* output route, and for a device whose selected output route has an info list
\* of fewer than 3 entries, whatever the other routes carry.
C16_UnclassifiedGuard ==
    LET top == GetHighestPriorityOutputRoute(probe.dev)
    IN (/\ probe.op \in {"private", "public"}
        /\ (OutputPositions(probe.dev.Route) = {} \/ Len(top.route.Info) < 3))
       => ~probe.result

\* the selected route has the two-entry list that names a headset, a lower
\* output route and an input route carry the port type headphones, and
\* IsPrivateDevice has returned false
C16_Witness ==
    LET routes == probe.dev.Route
        top == GetHighestPriorityOutputRoute(probe.dev)
    IN /\ probe.op = "private"
       /\ ~probe.result
       /\ top.ok
       /\ top.route.Info = ShortInfo
       /\ \E i \in OutputPositions(routes) :
             /\ routes[i].Priority < top.route.Priority
             /\ IsPrivateDevice(Device(1, <<routes[i]>>))
       /\ \E i \in 1..Len(routes) :
             /\ i \notin OutputPositions(routes)
             /\ Len(routes[i].Info) = 3

\* C17: a call of pw_mute_set entered before pw_mute_init has returned 0 does
\* nothing: it dereferences no NULL pointer of data, the process is not killed,
\* the call takes no lock and issues no request, and it returns.
C17_NotReadyIsNoOp ==
    \A t \in Callers :
        mute.calls[t].early =>
           /\ mute.calls[t].pc = "idle"
           /\ mute.calls[t].outcome = "none"

\* the call of t has issued its request and has not finished its wait
InWait(t) == mute.calls[t].pc \in {"check", "waiting"}

\* C18: with the actuator initialised, every call entered after that and
\* neither pw_mute_init nor pw_mute_deinit called since, while
\* a call is between its set-param request and the end of its wait no call for
\* another node is in that section and data.pending_seq is the sequence number
\* of its request; and a call that ends on data.done ends on the reply to its
\* own request.
C18_MuteSerialization ==
    (/\ mute.init = 5
     /\ ~mute.fault
     /\ \A t \in Callers : ~mute.calls[t].early /\ ~mute.calls[t].disturbed) =>
        \A t \in Callers :
            /\ mute.calls[t].outcome # "other reply"
            /\ \A u \in Callers \ {t} :
                  (InWait(t) /\ mute.calls[u].node # mute.calls[t].node) =>
                     /\ ~InWait(u)
                     /\ mute.data.pending_seq = mute.calls[t].seq

\* C21: currentDefaultSink is empty in the initial state, and no step takes it
\* from a non-empty name to the empty string.
C21_SinkNameStaysNonEmpty ==
    /\ currentDefaultSink = EmptyString
    /\ [][currentDefaultSink # EmptyString => currentDefaultSink' # EmptyString]_vars

\* a default.audio.sink entry whose name decodes to the empty string has been
\* processed while a default sink was known, and the known name is still there
C21_Witness ==
    /\ last.kind = "Metadata"
    /\ last.key = SinkKey
    /\ last.name = EmptyString
    /\ last.prevSink # EmptyString
    /\ currentDefaultSink = last.prevSink

\* C22: what a record declares is fixed by the records fed so far: in every
\* state the program reaches, a Device record, and an entry of a Metadata
\* record, declares the same number of transitions whichever order the range
\* loop of GetNodeIDByName visits GlobalNodes in.
C22_DeterministicDetection ==
    \A o1, o2 \in IterOrders(GlobalNodes) :
        /\ pending = 0 =>
              \A dev \in DeviceRecords :
                  handleDefaultRouteChange(dev, GlobalNodes, GlobalDevices,
                                           currentDefaultSink, o1)
                  = handleDefaultRouteChange(dev, GlobalNodes, GlobalDevices,
                                             currentDefaultSink, o2)
        /\ \A entry \in MetadataEntries : \A o3, o4 \in IterOrders(GlobalNodes) :
              handleDefaultSinkChangeEntry(entry, GlobalNodes, GlobalDevices,
                                           currentDefaultSink, IsUserOperation,
                                           o1, o3).declared
              = handleDefaultSinkChangeEntry(entry, GlobalNodes, GlobalDevices,
                                             currentDefaultSink, IsUserOperation,
                                             o2, o4).declared

\* the call of t is under way on the initialised actuator: it was entered after
\* pw_mute_init returned 0, neither pw_mute_init nor pw_mute_deinit has been
\* called since, no call has used a NULL pointer, and the process lives
Running(t) ==
    /\ mute.calls[t].pc # "idle"
    /\ ~mute.calls[t].early
    /\ ~mute.calls[t].disturbed
    /\ ~mute.fault
    /\ Alive

\* the call of t owns the lock of the loop it passed to pw_thread_loop_lock
HoldsLock(t) ==
    /\ mute.calls[t].loop # 0
    /\ mute.loops[mute.calls[t].loop].lock = t

\* the step that returns from the call of t leaves the loop lock released by t
ReturnsUnlocked(t) ==
    (Running(t) /\ mute'.calls[t].pc = "idle")
    => \A g \in LoopIds : mute'.loops[g].lock # t

\* C23: every call of pw_mute_set on the initialised actuator returns, whether
\* its bind fails, its reply arrives or its wait times out, and with other
\* calls under way; the step that returns leaves the loop lock released by the
\* caller, and no call waits for data.done for ever.  The statement is made
\* in favour of the code: a process that on_core_error has ended is not held
\* against it, and neither is a call that the mutex never lets have the loop
\* lock: a call that owns the loop lock again and again comes to its return.
C23_MuteSetCompletes ==
    /\ [][\A t \in Callers : ReturnsUnlocked(t)]_vars
    /\ \A t \in Callers : []<>HoldsLock(t) => []<>(~Running(t))

====
